---- MODULE Spec2Model ----
(***************************************************************************)
(* Asynchronous job pipeline of nano-convert-backend: admission            *)
(* (POST /tools/{slug}), job registry and queue (Redis / RQ), worker       *)
(* executor (process_job), status query (GET /jobs/{id}) and the cleanup   *)
(* sweep.  Time is the wall clock in milliseconds.                         *)
(***************************************************************************)
EXTENDS Integers, Sequences, FiniteSets, TLC

(* ------------------------------ bounds --------------------------------- *)
NumReq == 2          \* request handlers that may be in flight at once
MaxRequests == 1     \* requests received in one run of the whole pipeline
MaxRateRequests == 2 \* requests received in one run of rate limiting alone
MaxFiles == 2        \* file parts of one request
NumWorkers == 2      \* RQ worker processes
MaxDeliveries == 2   \* deliveries of one work item (1 + redeliveries)

(* --------------------------- configuration ----------------------------- *)
rate_limit_per_min == 60
job_ttl_seconds == 3600
max_upload_bytes == 50 * 1024 * 1024
RateKeyTtlSeconds == 61

ttl_ms == job_ttl_seconds * 1000
MinuteMs == 60 * 1000

(* Sample instants of the wall clock (ms): the start, half the job TTL     *)
(* (a later minute bucket), and the first millisecond past the job TTL.    *)
Instants == {0, ttl_ms \div 2, ttl_ms + 1}

Req == 1 .. NumReq
Workers == 1 .. NumWorkers
Clients == {"10.0.0.1", "10.0.0.2"}
Slugs == {"merge-pdf", "image-watermark", "no-such-tool"}

NoJob == 0
NoExpiry == -1
NoKey == <<"", 0, 0>>

(* ToolMeta entries; maxSizeBytes 0 stands for None (both are falsy).      *)
TOOLS_META ==
  [s \in {"merge-pdf", "image-watermark"} |->
     IF s = "merge-pdf"
     THEN [maxInputFiles |-> 20, maxSizeBytes |-> 200 * 1024 * 1024,
           allowedMimeTypes |-> {"application/pdf"}]
     ELSE [maxInputFiles |-> 1, maxSizeBytes |-> 0,
           allowedMimeTypes |-> {"image/jpeg", "image/png", "image/webp"}]]

(* Replies of clamd to instream: raises (backend unreachable), an empty    *)
(* result (status ""), ('OK', None), ('FOUND', name), ('FOUND', None).     *)
(* sig "" stands for None.                                                 *)
OracleReplies ==
  { [raises |-> TRUE,  status |-> "",      sig |-> ""],
    [raises |-> FALSE, status |-> "",      sig |-> ""],
    [raises |-> FALSE, status |-> "OK",    sig |-> ""],
    [raises |-> FALSE, status |-> "FOUND", sig |-> "Eicar-Test-Signature"],
    [raises |-> FALSE, status |-> "FOUND", sig |-> ""] }

FileSizes == {0, 1, max_upload_bytes + 1, 200 * 1024 * 1024 + 1}
MagicTypes == {"application/pdf", "image/png"}

(* An uploaded file part: its length, the type libmagic finds in its       *)
(* content, and what the scan oracle will answer for it.                   *)
Files == [size : FileSizes, magic : MagicTypes, reply : OracleReplies]

VARIABLES
  now,            \* wall clock, ms
  clamav_enabled, \* settings.clamav_enabled
  counters,       \* Redis: ratelimit:{ip}:{minute} -> [n, exp]
  registry,       \* Redis: job:{id} -> [meta, exp]
  blobs,          \* S3 bucket: key -> [body, contentType, lastModified]
  rq,             \* RQ queue "jobs": job id -> [data, state, deliveries]
  reqs,           \* run_tool handlers
  workers,        \* process_job executions
  received,       \* number of requests received
  nextJob,        \* number of job ids generated (uuid4)
  stageLog,       \* key -> number of stage operations that returned it
  lastResp,       \* the POST /tools/{slug} response just sent
  lastGet         \* the GET /jobs/{id} response just sent

vars == <<now, clamav_enabled, counters, registry, blobs, rq, reqs, workers,
          received, nextJob, stageLog, lastResp, lastGet>>

NoRej == [status |-> 0, detail |-> <<>>]

(* No file part.                                                           *)
NoFile ==
  [size |-> -1, magic |-> "", reply |-> [raises |-> FALSE, status |-> "", sig |-> ""]]
NoGet == [job_id |-> NoJob, status |-> 0, body |-> <<>>, outputUrl |-> NoKey]

IdleReq ==
  [pc |-> "idle", slug |-> "", nfiles |-> 0, key |-> <<"", 0>>, incr |-> 0,
   scans |-> <<>>, validated |-> <<>>, input_keys |-> <<>>, job_id |-> NoJob,
   file |-> NoFile]

(* What a finished handler leaves behind: its response, and for the record *)
(* the counter value it read, the oracle's answers, the keys it staged,    *)
(* the job id it generated, the tool it was for and the file part whose    *)
(* check raised.                                                           *)
NoResp ==
  [status |-> 0, detail |-> <<>>, incr |-> 0, scans |-> <<>>,
   input_keys |-> <<>>, job_id |-> NoJob, slug |-> "", file |-> NoFile]

IdleWorker ==
  [pc |-> "idle", job_id |-> NoJob, input_keys |-> <<>>, out_key |-> NoKey,
   error |-> "", wrote |-> "none"]

(* ------------------------------ Redis ---------------------------------- *)
(* A key with an expiry is gone once the clock has passed it.              *)
Expired(exp) == exp # NoExpiry /\ now > exp

LiveCounter(key) == key \in DOMAIN counters /\ ~Expired(counters[key].exp)

LiveJob(id) == id \in DOMAIN registry /\ ~Expired(registry[id].exp)

(* incr_value returning the value the key held before the increment.      *)
incr_value_stale(key) == IF LiveCounter(key) THEN counters[key].n ELSE 1

(* redis.incr(key): the post-increment value; a new key has no expiry.     *)
incr_value(key) == IF LiveCounter(key) THEN counters[key].n + 1 ELSE 1

redis_incr(key) ==
  IF LiveCounter(key)
  THEN [counters EXCEPT ![key].n = @ + 1]
  ELSE (key :> [n |-> 1, exp |-> NoExpiry]) @@ counters

(* redis.expire(key, 61) *)
redis_expire(key) ==
  IF LiveCounter(key)
  THEN [counters EXCEPT ![key].exp = now + RateKeyTtlSeconds * 1000]
  ELSE counters

(* r.set(f"job:{id}", json.dumps(meta), ex=settings.job_ttl_seconds)       *)
redis_set_job(id, meta) ==
  (id :> [meta |-> meta, exp |-> now + job_ttl_seconds * 1000]) @@ registry

(* r.get(f"job:{id}") followed by json.loads; <<>> stands for no record.   *)
fetch_job_metadata(id) == IF LiveJob(id) THEN registry[id].meta ELSE <<>>

(* dict_update replacing the record by the supplied fields.                *)
dict_replace(meta, partial) == partial

(* meta.update(partial) *)
dict_update(meta, partial) ==
  [f \in (DOMAIN meta) \cup (DOMAIN partial) |->
     IF f \in DOMAIN partial THEN partial[f] ELSE meta[f]]

_save_metadata_sync(job_id, partial) ==
  LET raw == fetch_job_metadata(job_id)
      merged == dict_update(raw, partial)
      meta == dict_update(merged, [updatedAt |-> now])
  IN redis_set_job(job_id, meta)

(* ------------------------------ S3 ------------------------------------- *)
(* f"{prefix}/{int(time.time())}-{int(time.time() * 1000)}"                *)
ObjectKey(prefix, t) == <<prefix, t \div 1000, t>>

put_object(key, body, content_type) ==
  (key :> [body |-> body, contentType |-> content_type, lastModified |-> now])
     @@ blobs

LogStage(key) ==
  IF key \in DOMAIN stageLog
  THEN [stageLog EXCEPT ![key] = @ + 1]
  ELSE (key :> 1) @@ stageLog

(* ------------------------------ ClamAV --------------------------------- *)
(* _sync_scan with the status test inverted for FOUND: a finding passes.   *)
_sync_scan_found_passes(reply) ==
  IF reply.status = "" THEN <<TRUE, "">>
  ELSE IF reply.status \in {"OK", "FOUND"} THEN <<TRUE, "">>
  ELSE <<FALSE, IF reply.sig # "" THEN reply.sig ELSE "infected">>

(* _sync_scan: <<ok, reason>>; an exception of the client is re-raised.    *)
_sync_scan(reply) ==
  IF reply.status = "" THEN <<TRUE, "">>
  ELSE IF reply.status = "OK" THEN <<TRUE, "">>
  ELSE <<FALSE, IF reply.sig # "" THEN reply.sig ELSE "infected">>

(* scan_buffer failing open: a scan that cannot be made counts as clean.   *)
scan_buffer_fail_open(enabled, reply) ==
  IF ~enabled THEN <<TRUE, "">>
  ELSE IF reply.raises THEN <<TRUE, "">>
  ELSE _sync_scan(reply)

(* scan_buffer: <<ok, reason>>; disabled screening passes every buffer,    *)
(* an exception of the scan is turned into a refusal.                      *)
scan_buffer(enabled, reply) ==
  IF ~enabled THEN <<TRUE, "">>
  ELSE IF reply.raises THEN <<FALSE, "ClamAV error">>
  ELSE _sync_scan(reply)

(* ---------------------------- validation ------------------------------- *)
(* CountCheck without the test against maxInputFiles.                      *)
CountCheck_no_max(slug, n) ==
  IF slug \notin DOMAIN TOOLS_META THEN [status |-> 404, detail |-> <<"Tool not found">>]
  ELSE IF n = 0 THEN [status |-> 400, detail |-> <<"No files uploaded">>]
  ELSE NoRej

(* Checks of validate_tool_and_files made before the first file is read.   *)
CountCheck(slug, n) ==
  IF slug \notin DOMAIN TOOLS_META THEN [status |-> 404, detail |-> <<"Tool not found">>]
  ELSE IF n = 0 THEN [status |-> 400, detail |-> <<"No files uploaded">>]
  ELSE IF n > TOOLS_META[slug].maxInputFiles
       THEN [status |-> 400, detail |-> <<"Too many files">>]
  ELSE NoRej

(* FileCheck with the type test made before the size test.                 *)
FileCheck_mime_first(slug, f, enabled) ==
  LET tool == TOOLS_META[slug]
      max_size == IF tool.maxSizeBytes # 0 THEN tool.maxSizeBytes
                  ELSE max_upload_bytes
      res == scan_buffer(enabled, f.reply)
  IN IF f.size = 0 THEN [status |-> 400, detail |-> <<"Empty file">>]
     ELSE IF f.magic \notin tool.allowedMimeTypes
          THEN [status |-> 415, detail |-> <<"Invalid MIME type", f.magic>>]
     ELSE IF f.size > max_size THEN [status |-> 413, detail |-> <<"File too large">>]
     ELSE IF ~res[1] THEN [status |-> 400, detail |-> <<"Malware detected", res[2]>>]
     ELSE NoRej

(* The loop body of validate_tool_and_files for one file: the rejection it *)
(* raises (NoResp when the file is accepted).                              *)
FileCheck(slug, f, enabled) ==
  LET tool == TOOLS_META[slug]
      max_size == IF tool.maxSizeBytes # 0 THEN tool.maxSizeBytes
                  ELSE max_upload_bytes
      res == scan_buffer(enabled, f.reply)
  IN IF f.size = 0 THEN [status |-> 400, detail |-> <<"Empty file">>]
     ELSE IF f.size > max_size THEN [status |-> 413, detail |-> <<"File too large">>]
     ELSE IF f.magic \notin tool.allowedMimeTypes
          THEN [status |-> 415, detail |-> <<"Invalid MIME type", f.magic>>]
     ELSE IF ~res[1] THEN [status |-> 400, detail |-> <<"Malware detected", res[2]>>]
     ELSE NoRej

(* ReachesScan with the scan made before the other checks.                 *)
ReachesScan_always(slug, f) == TRUE

(* Whether the loop body reaches the scan_buffer call for this file.       *)
ReachesScan(slug, f) ==
  LET tool == TOOLS_META[slug]
      max_size == IF tool.maxSizeBytes # 0 THEN tool.maxSizeBytes
                  ELSE max_upload_bytes
  IN f.size # 0 /\ f.size <= max_size /\ f.magic \in tool.allowedMimeTypes

(* ------------------------------ Init ----------------------------------- *)
(* The counter store is empty, or one client has already spent its        *)
(* requests of the current minute (on requests for unknown tools, which    *)
(* leave nothing but the counter).                                         *)
InitCounters ==
  { <<>>,
    (<<"10.0.0.1", 0>> :> [n |-> rate_limit_per_min,
                            exp |-> RateKeyTtlSeconds * 1000]) }

Init ==
  /\ now = 0
  /\ clamav_enabled \in BOOLEAN
  /\ counters \in InitCounters
  /\ registry = <<>>
  /\ blobs = <<>>
  /\ rq = <<>>
  /\ reqs = [r \in Req |-> IdleReq]
  /\ workers = [w \in Workers |-> IdleWorker]
  /\ received = 0
  /\ nextJob = 0
  /\ stageLog = <<>>
  /\ lastResp = NoResp
  /\ lastGet = NoGet

(* No response goes out in this step.                                      *)
Quiet == lastResp' = NoResp /\ lastGet' = NoGet

(* ------------------------------ clock ---------------------------------- *)
AdvanceTime(t) ==
  /\ t > now
  /\ now' = t
  /\ Quiet
  /\ UNCHANGED <<clamav_enabled, counters, registry, blobs, rq, reqs, workers,
                 received, nextJob, stageLog>>

(* ------------------------- POST /tools/{slug} -------------------------- *)
Response(q, status, detail) ==
  [status |-> status, detail |-> detail, incr |-> q.incr, scans |-> q.scans,
   input_keys |-> q.input_keys, job_id |-> q.job_id, slug |-> q.slug,
   file |-> q.file]

(* The handler r ends with the response resp.                              *)
Respond(r, resp) ==
  /\ reqs' = [reqs EXCEPT ![r] = IdleReq]
  /\ lastResp' = resp
  /\ lastGet' = NoGet

(* The handler r goes on as q.                                             *)
Continue(r, q) ==
  /\ reqs' = [reqs EXCEPT ![r] = q]
  /\ Quiet

(* tools.py 35-39: where the handler continues after the limit test.  The  *)
(* HTTPException(429) of line 36 is raised inside the try block, and       *)
(* `except Exception` (line 37) catches it, logs and falls through to the  *)
(* tool lookup of line 41.                                                 *)
AfterRateLimit(incr) ==
  IF incr > rate_limit_per_min THEN "lookup" ELSE "lookup"

(* Handlers are interchangeable: a request is served by the first free one. *)
FirstFree(r) ==
  /\ reqs[r].pc = "idle"
  /\ \A r2 \in Req : r2 < r => reqs[r2].pc # "idle"

(* Lines 27-34: the request arrives and increments its counter; when the   *)
(* counter store is unreachable the exception is logged and swallowed.     *)
Arrive(r, c, slug, n, redisUp) ==
  LET key == <<c, now \div MinuteMs>>
      v == incr_value(key)
      fresh == [IdleReq EXCEPT !.slug = slug, !.nfiles = n, !.key = key]
  IN /\ FirstFree(r)
     /\ received' = received + 1
     /\ IF redisUp
        THEN /\ counters' = redis_incr(key)
             /\ Continue(r, [fresh EXCEPT !.incr = v,
                                          !.pc = IF v = 1 THEN "expire"
                                                 ELSE AfterRateLimit(v)])
        ELSE /\ counters' = counters
             /\ Continue(r, [fresh EXCEPT !.pc = "lookup"])
     /\ UNCHANGED <<now, clamav_enabled, registry, blobs, rq, workers, nextJob, stageLog>>

(* RateExpire failing closed: an error of redis.expire ends the request.   *)
RateExpire_fail_closed(r, redisUp) ==
  /\ reqs[r].pc = "expire"
  /\ IF redisUp
     THEN /\ counters' = redis_expire(reqs[r].key)
          /\ Continue(r, [reqs[r] EXCEPT !.pc = AfterRateLimit(reqs[r].incr)])
     ELSE /\ counters' = counters
          /\ Respond(r, Response(reqs[r], 503, <<"Service Unavailable">>))
  /\ UNCHANGED <<now, clamav_enabled, registry, blobs, rq, workers, received,
                 nextJob, stageLog>>

(* Line 34: redis.expire(key, 61) of the request that created the key.     *)
RateExpire(r, redisUp) ==
  /\ reqs[r].pc = "expire"
  /\ IF redisUp
     THEN /\ counters' = redis_expire(reqs[r].key)
          /\ Continue(r, [reqs[r] EXCEPT !.pc = AfterRateLimit(reqs[r].incr)])
     ELSE /\ counters' = counters
          /\ Continue(r, [reqs[r] EXCEPT !.pc = "lookup"])
  /\ UNCHANGED <<now, clamav_enabled, registry, blobs, rq, workers, received,
                 nextJob, stageLog>>

(* Lines 41-45 and validation.py 45-54.                                    *)
Lookup(r) ==
  LET q == reqs[r]
      rej == CountCheck(q.slug, q.nfiles)
  IN /\ q.pc = "lookup"
     /\ IF rej.status # 0
        THEN Respond(r, Response(q, rej.status, rej.detail))
        ELSE Continue(r, [q EXCEPT !.pc = "validate"])
     /\ UNCHANGED <<now, clamav_enabled, counters, registry, blobs, rq, workers,
                    received, nextJob, stageLog>>

(* What the scan oracle answered, as the handler's record keeps it.        *)
Verdict(reply) ==
  IF reply.raises THEN [kind |-> "error", sig |-> ""]
  ELSE IF reply.status = "FOUND" THEN [kind |-> "infected", sig |-> reply.sig]
  ELSE [kind |-> "clean", sig |-> ""]

(* validation.py 57-76: one iteration of the loop, on the next file part.  *)
ValidateFile(r, f) ==
  LET q == reqs[r]
      rej == FileCheck(q.slug, f, clamav_enabled)
      scans == IF clamav_enabled /\ ReachesScan(q.slug, f)
               THEN Append(q.scans, Verdict(f.reply)) ELSE q.scans
      entry == [name |-> Len(q.validated) + 1, magic |-> f.magic]
      validated == Append(q.validated, entry)
      q2 == [q EXCEPT !.scans = scans]
  IN /\ q.pc = "validate"
     /\ IF rej.status # 0
        THEN Respond(r, Response([q2 EXCEPT !.file = f], rej.status, rej.detail))
        ELSE Continue(r, [q2 EXCEPT !.validated = validated,
                                    !.pc = IF Len(validated) = q.nfiles
                                           THEN "stage" ELSE "validate"])
     /\ UNCHANGED <<now, clamav_enabled, counters, registry, blobs, rq, workers,
                    received, nextJob, stageLog>>

(* tools.py 49-51 with storage.upload_bytes: stage the next validated      *)
(* file; an S3 error leaves the handler as a 500.                          *)
StageInput(r, s3Up) ==
  LET q == reqs[r]
      v == q.validated[Len(q.input_keys) + 1]
      key == ObjectKey("temp", now)
      keys == Append(q.input_keys, key)
  IN /\ q.pc = "stage"
     /\ IF s3Up
        THEN /\ blobs' = put_object(key, v, v.magic)
             /\ stageLog' = LogStage(key)
             /\ Continue(r, [q EXCEPT !.input_keys = keys,
                                      !.pc = IF Len(keys) = Len(q.validated)
                                             THEN "store" ELSE "stage"])
        ELSE /\ Respond(r, Response(q, 500, <<"Internal Server Error">>))
             /\ UNCHANGED <<blobs, stageLog>>
     /\ UNCHANGED <<now, clamav_enabled, counters, registry, rq, workers,
                    received, nextJob>>

(* StoreMeta going on to enqueue although the record could not be written. *)
StoreMeta_unchecked(r, redisUp) ==
  LET q == reqs[r]
      job_id == nextJob + 1
      job_meta == [id |-> job_id, slug |-> q.slug, status |-> "queued",
                   createdAt |-> now, updatedAt |-> now,
                   inputFiles |-> q.input_keys,
                   expiresAt |-> now + job_ttl_seconds * 1000]
  IN /\ q.pc = "store"
     /\ nextJob' = job_id
     /\ registry' = IF redisUp THEN redis_set_job(job_id, job_meta) ELSE registry
     /\ Continue(r, [q EXCEPT !.job_id = job_id, !.pc = "enqueue"])
     /\ UNCHANGED <<now, clamav_enabled, counters, blobs, rq, workers, received,
                    stageLog>>

(* tools.py 54-67 with queue.store_job_metadata.                           *)
StoreMeta(r, redisUp) ==
  LET q == reqs[r]
      job_id == nextJob + 1
      created_at == now
      job_meta == [id |-> job_id, slug |-> q.slug, status |-> "queued",
                   createdAt |-> created_at, updatedAt |-> created_at,
                   inputFiles |-> q.input_keys,
                   expiresAt |-> created_at + job_ttl_seconds * 1000]
      q2 == [q EXCEPT !.job_id = job_id]
  IN /\ q.pc = "store"
     /\ nextJob' = job_id
     /\ IF redisUp
        THEN /\ registry' = redis_set_job(job_id, job_meta)
             /\ Continue(r, [q2 EXCEPT !.pc = "enqueue"])
        ELSE /\ Respond(r, Response(q2, 500, <<"Internal Server Error">>))
             /\ registry' = registry
     /\ UNCHANGED <<now, clamav_enabled, counters, blobs, rq, workers, received,
                    stageLog>>

(* tools.py 70-74 with queue.enqueue_job.                                  *)
Enqueue(r, redisUp) ==
  LET q == reqs[r]
      job_data == [jobId |-> q.job_id, inputKeys |-> q.input_keys,
                   slug |-> q.slug]
  IN /\ q.pc = "enqueue"
     /\ IF redisUp
        THEN /\ rq' = (q.job_id :> [data |-> job_data, state |-> "queued",
                                    deliveries |-> 0]) @@ rq
             /\ Respond(r, Response(q, 202, <<"queued">>))
        ELSE /\ Respond(r, Response(q, 500, <<"Internal Server Error">>))
             /\ rq' = rq
     /\ UNCHANGED <<now, clamav_enabled, counters, registry, blobs, workers,
                    received, nextJob, stageLog>>

(* --------------------------- GET /jobs/{id} ---------------------------- *)
get_job(job_id) ==
  IF ~LiveJob(job_id)
  THEN [job_id |-> job_id, status |-> 404, body |-> <<>>, outputUrl |-> NoKey]
  ELSE LET meta == fetch_job_metadata(job_id)
       IN [job_id |-> job_id, status |-> 200, body |-> meta,
           outputUrl |-> IF "outputFile" \in DOMAIN meta
                         THEN meta.outputFile ELSE NoKey]

GetJob(job_id) ==
  /\ lastGet' = get_job(job_id)
  /\ lastResp' = NoResp
  /\ UNCHANGED <<now, clamav_enabled, counters, registry, blobs, rq, reqs,
                 workers, received, nextJob, stageLog>>

(* ----------------------------- RQ worker ------------------------------- *)
(* Dequeue handing out a work item that another worker has started.        *)
Dequeue_unclaimed(w, j) ==
  /\ workers[w].pc = "idle"
  /\ \A w2 \in Workers : w2 < w => workers[w2].pc # "idle"
  /\ j \in DOMAIN rq
  /\ rq[j].state \in {"queued", "started"}
  /\ rq[j].deliveries < MaxDeliveries
  /\ rq' = [rq EXCEPT ![j].state = "started", ![j].deliveries = @ + 1]
  /\ workers' = [workers EXCEPT ![w] =
        [IdleWorker EXCEPT !.pc = "begin", !.job_id = rq[j].data.jobId,
                           !.input_keys = rq[j].data.inputKeys]]
  /\ Quiet
  /\ UNCHANGED <<now, clamav_enabled, counters, registry, blobs, reqs,
                 received, nextJob, stageLog>>

(* worker.py 19-22: the worker takes a queued work item.  The queue hands  *)
(* an item to one worker at a time.                                        *)
Dequeue(w, j) ==
  /\ workers[w].pc = "idle"
  /\ \A w2 \in Workers : w2 < w => workers[w2].pc # "idle"
  /\ j \in DOMAIN rq
  /\ rq[j].state = "queued"
  /\ rq[j].deliveries < MaxDeliveries
  /\ rq' = [rq EXCEPT ![j].state = "started", ![j].deliveries = @ + 1]
  /\ workers' = [workers EXCEPT ![w] =
        [IdleWorker EXCEPT !.pc = "begin", !.job_id = rq[j].data.jobId,
                           !.input_keys = rq[j].data.inputKeys]]
  /\ Quiet
  /\ UNCHANGED <<now, clamav_enabled, counters, registry, blobs, reqs,
                 received, nextJob, stageLog>>

(* processor.py 155-163: the guard on the payload, then the write of       *)
(* status running, which is outside the try block.                         *)
MarkRunning(w, redisUp) ==
  LET k == workers[w]
  IN /\ k.pc = "begin"
     /\ IF k.job_id = NoJob \/ k.input_keys = <<>>
        THEN /\ workers' = [workers EXCEPT ![w].pc = "returned"]
             /\ registry' = registry
        ELSE IF redisUp
        THEN /\ registry' = _save_metadata_sync(k.job_id, [status |-> "running"])
             /\ workers' = [workers EXCEPT ![w].pc = "process"]
        ELSE /\ registry' = registry
             /\ workers' = [workers EXCEPT ![w].pc = "raised",
                                           ![w].error = "redis error"]
     /\ Quiet
     /\ UNCHANGED <<now, clamav_enabled, counters, blobs, rq, reqs, received,
                    nextJob, stageLog>>

(* _process_pass_through: the output buffer and its content type.          *)
_process_pass_through(buffers) ==
  IF Len(buffers) = 1
  THEN [body |-> buffers[1],
        contentType |-> IF buffers[1].magic = "application/pdf"
                        THEN "application/pdf" ELSE "application/octet-stream"]
  ELSE IF buffers[1].magic = "application/pdf"
  THEN [body |-> [name |-> 0, size |-> 1, magic |-> "application/pdf"],
        contentType |-> "application/pdf"]
  ELSE [body |-> [name |-> 0, size |-> 1, magic |-> "image/jpeg"],
        contentType |-> "image/jpeg"]

(* processor.py 168 (_process_pass_through): download the inputs, convert, *)
(* upload the output.  The step fails when an input object is missing,     *)
(* when S3 fails, or when PyPDF2 / Pillow cannot read a buffer.            *)
Process(w, outcome) ==
  LET k == workers[w]
      missing == \E i \in 1 .. Len(k.input_keys) : k.input_keys[i] \notin DOMAIN blobs
      buffers == [i \in 1 .. Len(k.input_keys) |-> blobs[k.input_keys[i]].body]
      key == ObjectKey("output", now)
  IN /\ k.pc = "process"
     /\ outcome = "convert_error" => Len(k.input_keys) > 1
     /\ IF missing
        THEN /\ workers' = [workers EXCEPT ![w].pc = "save_failed",
                                           ![w].error = "NoSuchKey"]
             /\ UNCHANGED <<blobs, stageLog>>
        ELSE IF outcome # "ok"
        THEN /\ workers' = [workers EXCEPT ![w].pc = "save_failed",
                                           ![w].error = outcome]
             /\ UNCHANGED <<blobs, stageLog>>
        ELSE LET out == _process_pass_through(buffers)
             IN /\ blobs' = put_object(key, out.body, out.contentType)
                /\ stageLog' = LogStage(key)
                /\ workers' = [workers EXCEPT ![w].pc = "save_completed",
                                              ![w].out_key = key]
     /\ Quiet
     /\ UNCHANGED <<now, clamav_enabled, counters, registry, rq, reqs, received,
                    nextJob>>

(* processor.py 171: a failure of this write is caught by line 173.        *)
SaveCompleted(w, redisUp) ==
  LET k == workers[w]
  IN /\ k.pc = "save_completed"
     /\ IF redisUp
        THEN /\ registry' = _save_metadata_sync(k.job_id,
                   [status |-> "completed", outputFile |-> k.out_key])
             /\ workers' = [workers EXCEPT ![w].pc = "returned",
                                           ![w].wrote = "completed"]
        ELSE /\ registry' = registry
             /\ workers' = [workers EXCEPT ![w].pc = "save_failed",
                                           ![w].error = "redis error"]
     /\ Quiet
     /\ UNCHANGED <<now, clamav_enabled, counters, blobs, rq, reqs, received,
                    nextJob, stageLog>>

(* processor.py 173-176: record the failure, then re-raise.                *)
SaveFailed(w, redisUp) ==
  LET k == workers[w]
  IN /\ k.pc = "save_failed"
     /\ IF redisUp
        THEN /\ registry' = _save_metadata_sync(k.job_id,
                   [status |-> "failed", error |-> k.error])
             /\ workers' = [workers EXCEPT ![w].pc = "raised",
                                           ![w].wrote = "failed"]
        ELSE /\ registry' = registry
             /\ workers' = [workers EXCEPT ![w].pc = "raised"]
     /\ Quiet
     /\ UNCHANGED <<now, clamav_enabled, counters, blobs, rq, reqs, received,
                    nextJob, stageLog>>

(* process_job has returned or raised: RQ records the outcome.             *)
Ack(w) ==
  LET k == workers[w]
  IN /\ k.pc \in {"returned", "raised"}
     /\ rq' = [rq EXCEPT ![k.job_id].state =
                  IF k.pc = "returned" THEN "finished" ELSE "failed"]
     /\ workers' = [workers EXCEPT ![w] = IdleWorker]
     /\ Quiet
     /\ UNCHANGED <<now, clamav_enabled, counters, registry, blobs, reqs,
                    received, nextJob, stageLog>>

(* The worker process dies before acknowledging: the work item is          *)
(* delivered again (at-least-once delivery).                               *)
Crash(w) ==
  LET k == workers[w]
  IN /\ k.pc # "idle"
     /\ rq' = [rq EXCEPT ![k.job_id].state = "queued"]
     /\ workers' = [workers EXCEPT ![w] = IdleWorker]
     /\ Quiet
     /\ UNCHANGED <<now, clamav_enabled, counters, registry, blobs, reqs,
                    received, nextJob, stageLog>>

(* ------------------------------ cleanup -------------------------------- *)
(* SweepDeletes deleting at the age of the TTL already.                    *)
SweepDeletes_at_ttl(key) ==
  /\ key[1] \in {"temp", "output"}
  /\ now - blobs[key].lastModified >= job_ttl_seconds * 1000

(* cleanup.main: one sweep over temp/ and output/.                         *)
SweepDeletes(key) ==
  /\ key[1] \in {"temp", "output"}
  /\ now - blobs[key].lastModified > job_ttl_seconds * 1000

Sweep ==
  /\ blobs' = [key \in {k \in DOMAIN blobs : ~SweepDeletes(k)} |-> blobs[key]]
  /\ Quiet
  /\ UNCHANGED <<now, clamav_enabled, counters, registry, rq, reqs, workers,
                 received, nextJob, stageLog>>

(* ------------------------------- Next ---------------------------------- *)
(* The steps of the request handlers.                                      *)
Admission ==
  \/ \E r \in Req, up \in BOOLEAN : RateExpire(r, up)
  \/ \E r \in Req : Lookup(r)
  \/ \E r \in Req, f \in Files : ValidateFile(r, f)
  \/ \E r \in Req, up \in BOOLEAN : StageInput(r, up)
  \/ \E r \in Req, up \in BOOLEAN : StoreMeta(r, up)
  \/ \E r \in Req, up \in BOOLEAN : Enqueue(r, up)

Receive ==
  \E r \in Req, c \in Clients, slug \in Slugs, n \in 0 .. MaxFiles,
     up \in BOOLEAN : Arrive(r, c, slug, n, up)

(* The whole pipeline.                                                     *)
Next ==
  \/ \E t \in Instants : AdvanceTime(t)
  \/ received < MaxRequests /\ Receive
  \/ Admission
  \/ \E j \in 1 .. nextJob : GetJob(j)
  \/ \E w \in Workers, j \in 1 .. nextJob : Dequeue(w, j)
  \/ \E w \in Workers, up \in BOOLEAN : MarkRunning(w, up)
  \/ \E w \in Workers, o \in {"ok", "s3_error", "convert_error"} : Process(w, o)
  \/ \E w \in Workers, up \in BOOLEAN : SaveCompleted(w, up)
  \/ \E w \in Workers, up \in BOOLEAN : SaveFailed(w, up)
  \/ \E w \in Workers : Ack(w)
  \/ \E w \in Workers : Crash(w)
  \/ Sweep

Spec == Init /\ [][Next]_vars

(* Admission alone: the request handlers, without worker, sweep or clock.  *)
NextAdmit ==
  \/ received < MaxRequests /\ Receive
  \/ Admission

SpecAdmit == Init /\ [][NextAdmit]_vars

(* Rate limiting alone, under the clock: concurrent requests that carry no *)
(* file part, each ending at the lookup (404 or 400), and the passing of   *)
(* minute buckets.                                                         *)
ReceiveBare ==
  \E r \in Req, c \in Clients, slug \in Slugs, up \in BOOLEAN :
     Arrive(r, c, slug, 0, up)

NextRate ==
  \/ \E t \in Instants : AdvanceTime(t)
  \/ received < MaxRateRequests /\ ReceiveBare
  \/ \E r \in Req, up \in BOOLEAN : RateExpire(r, up)
  \/ \E r \in Req : Lookup(r)

SpecRate == Init /\ [][NextRate]_vars

(* The sweep alone, on a bucket that holds objects staged at 0 ms and at   *)
(* 1 ms under temp/ and output/ and objects of another user of the bucket  *)
(* under backup/.                                                          *)
SweepPrefixes == {"temp", "output", "backup"}

SweepObjects == {ObjectKey(p, t) : p \in SweepPrefixes, t \in {0, 1}}

Bucket(keys) ==
  [key \in keys |->
     [body |-> [name |-> 1, magic |-> "application/pdf"],
      contentType |-> "application/pdf", lastModified |-> key[3]]]

InitSweep ==
  /\ now = 1
  /\ clamav_enabled \in BOOLEAN
  /\ counters = <<>>
  /\ registry = <<>>
  /\ \E keys \in SUBSET SweepObjects :
       /\ blobs = Bucket(keys)
       /\ stageLog = [key \in {k \in keys : k[1] # "backup"} |-> 1]
  /\ rq = <<>>
  /\ reqs = [r \in Req |-> IdleReq]
  /\ workers = [w \in Workers |-> IdleWorker]
  /\ received = 0
  /\ nextJob = 0
  /\ lastResp = NoResp
  /\ lastGet = NoGet

NextSweep ==
  \/ \E t \in Instants : AdvanceTime(t)
  \/ Sweep

SpecSweep == InitSweep /\ [][NextSweep]_vars

(* ======================================================================= *)
(*                                 Claims                                  *)
(* ======================================================================= *)
SomeScan(scans, kind) == \E i \in 1 .. Len(scans) : scans[i].kind = kind

Staged(q) == q.input_keys # <<>>

(* C1: a request whose post-increment counter value exceeds the per-minute *)
(* limit is not admitted: none of its files is staged, no job id is        *)
(* generated for it, nothing is enqueued and it is not answered 202.       *)
C1_RateLimitedRejected ==
  /\ \A r \in Req :
       reqs[r].incr > rate_limit_per_min =>
         ~Staged(reqs[r]) /\ reqs[r].job_id = NoJob
  /\ lastResp.incr > rate_limit_per_min =>
       /\ lastResp.status # 202
       /\ ~Staged(lastResp) /\ lastResp.job_id = NoJob

(* C2: with screening enabled, a request for one of whose files the scan   *)
(* oracle answered with a backend error is rejected (400, reason "ClamAV   *)
(* error") in the step that scanned it: it has staged no object, no job id *)
(* was generated for it, and no handler goes on with such a file.          *)
C2_FailClosed ==
  /\ \A r \in Req : ~SomeScan(reqs[r].scans, "error")
  /\ SomeScan(lastResp.scans, "error") =>
       /\ lastResp.status = 400
       /\ lastResp.detail = <<"Malware detected", "ClamAV error">>
       /\ ~Staged(lastResp)
       /\ lastResp.job_id = NoJob

(* A request is refused because the oracle failed on its second file.      *)
C2_Witness ==
  /\ clamav_enabled
  /\ lastResp.status = 400
  /\ Len(lastResp.scans) = 2
  /\ lastResp.scans[1].kind = "clean"
  /\ lastResp.scans[2].kind = "error"

(* C3: a request one of whose files the scan oracle reported infected is   *)
(* rejected with 400 "Malware detected" carrying the signature name the    *)
(* oracle gave; it has staged no object and no job id was generated.       *)
C3_MalwareRejected ==
  /\ \A r \in Req : ~SomeScan(reqs[r].scans, "infected")
  /\ \A i \in 1 .. Len(lastResp.scans) :
       lastResp.scans[i].kind = "infected" =>
         /\ lastResp.status = 400
         /\ Len(lastResp.detail) = 2
         /\ lastResp.detail[1] = "Malware detected"
         /\ lastResp.scans[i].sig # "" => lastResp.detail[2] = lastResp.scans[i].sig
         /\ ~Staged(lastResp)
         /\ lastResp.job_id = NoJob

(* A request is refused with the signature found in its second file.       *)
C3_Witness ==
  /\ lastResp.status = 400
  /\ Len(lastResp.scans) = 2
  /\ lastResp.scans[2] = [kind |-> "infected", sig |-> "Eicar-Test-Signature"]
  /\ lastResp.detail = <<"Malware detected", "Eicar-Test-Signature">>

(* C4: the status stored for a job id only ever changes queued -> running, *)
(* running -> completed or running -> failed, redeliveries included        *)
(* (stated for a record that exists before and after the step).            *)
StatusStep(a, b) ==
  \/ a = b
  \/ <<a, b>> \in {<<"queued", "running">>, <<"running", "completed">>,
                   <<"running", "failed">>}

LiveNext(id) == id \in DOMAIN registry' /\ ~(now' > registry'[id].exp)

C4_StatusMonotone ==
  [][\A id \in DOMAIN registry :
       (LiveJob(id) /\ LiveNext(id)) =>
          StatusStep(registry[id].meta.status, registry'[id].meta.status)]_vars

(* C5: a job record has outputFile if and only if its status is completed. *)
C5_OutputIffCompleted ==
  \A id \in DOMAIN registry :
    LiveJob(id) =>
      (("outputFile" \in DOMAIN registry[id].meta)
         <=> (registry[id].meta.status = "completed"))

(* C6: a job record has error if and only if its status is failed.         *)
C6_ErrorIffFailed ==
  \A id \in DOMAIN registry :
    LiveJob(id) =>
      (("error" \in DOMAIN registry[id].meta)
         <=> (registry[id].meta.status = "failed"))

(* C7: when a second (or later) delivery of a work item has finished, the  *)
(* record shows that run's outcome alone: completed with that run's output *)
(* key and no error, or failed with that run's error and no output key.    *)
C7_RedeliveryConsistent ==
  \A w \in Workers :
    LET k == workers[w]
        meta == registry[k.job_id].meta
    IN (k.pc \in {"returned", "raised"} /\ k.wrote # "none"
          /\ rq[k.job_id].deliveries >= 2 /\ LiveJob(k.job_id)) =>
         IF k.wrote = "completed"
         THEN /\ meta.status = "completed"
              /\ "outputFile" \in DOMAIN meta /\ meta.outputFile = k.out_key
              /\ "error" \notin DOMAIN meta
         ELSE /\ meta.status = "failed"
              /\ "error" \in DOMAIN meta /\ meta.error = k.error
              /\ "outputFile" \notin DOMAIN meta

(* C8: when process_job has returned or raised for a work item, it has     *)
(* written completed or failed to the job's record in that delivery.       *)
C8_TerminalWriteOnExit ==
  \A w \in Workers :
    (workers[w].pc \in {"returned", "raised"} /\ workers[w].input_keys # <<>>) =>
       workers[w].wrote \in {"completed", "failed"}

(* C9: no two stage operations return the same key; the input keys of one  *)
(* request are pairwise distinct.                                          *)
C9_KeysDistinct ==
  /\ \A key \in DOMAIN stageLog : stageLog[key] <= 1
  /\ \A r \in Req : \A i, j \in 1 .. Len(reqs[r].input_keys) :
       i # j => reqs[r].input_keys[i] # reqs[r].input_keys[j]

(* C10: a GET /jobs/{id} answered after the job's expiresAt does not       *)
(* return the job's record (stated for a response carrying the record      *)
(* that admission created, which holds createdAt and expiresAt).           *)
C10_ExpiredNotFound ==
  (lastGet.status = 200 /\ "expiresAt" \in DOMAIN lastGet.body) =>
     now <= lastGet.body.expiresAt

(* C11: a registry update made by a worker for a job id that has no record *)
(* (expired or evicted) creates none: a job id already generated that has  *)
(* no record before a worker's write has none after it, so a GET of the id *)
(* still answers not-found.                                                *)
WorkerWrites == \E w \in Workers : workers'[w].pc # workers[w].pc

C11_UpdateOfMissingIsNoOp ==
  [][\A id \in 1 .. nextJob :
       (WorkerWrites /\ ~LiveJob(id)) =>
          (~LiveNext(id) /\ get_job(id)'.status = 404)]_vars

(* C12: for a known tool, a request with no file part is answered 400 "No  *)
(* files uploaded" and one with more parts than the tool's maxInputFiles   *)
(* 400 "Too many files", by the step that counts the parts: nothing was    *)
(* scanned, nothing is staged, no job id is generated, and registry, blob  *)
(* store and queue are left as they were.                                  *)
CountRejects(q) ==
  /\ q.slug \in DOMAIN TOOLS_META
  /\ q.nfiles = 0 \/ q.nfiles > TOOLS_META[q.slug].maxInputFiles

C12_FileCountGate ==
  [][\A r \in Req :
       (reqs[r].pc = "lookup" /\ reqs'[r] # reqs[r] /\ CountRejects(reqs[r])) =>
          /\ lastResp'.status = 400
          /\ lastResp'.detail = IF reqs[r].nfiles = 0
                                THEN <<"No files uploaded">>
                                ELSE <<"Too many files">>
          /\ lastResp'.scans = <<>>
          /\ lastResp'.input_keys = <<>>
          /\ lastResp'.job_id = NoJob
          /\ UNCHANGED <<registry, blobs, rq, nextJob, stageLog>>]_vars

(* A request is refused for carrying more parts than its tool takes.       *)
C12_Witness ==
  /\ lastResp.status = 400
  /\ lastResp.detail = <<"Too many files">>

(* C13: no object is staged before every file part has been validated; a   *)
(* request one of whose parts fails a check is rejected with nothing       *)
(* staged and no job id, and the rejection is the first violation of that  *)
(* part in the order EmptyFile (400), FileTooLarge (413), UnsupportedType  *)
(* (415), scan result (400).  Parts are checked one at a time in input     *)
(* order, so the parts before the rejected one were all accepted.          *)
SizeLimit(slug) ==
  IF TOOLS_META[slug].maxSizeBytes # 0 THEN TOOLS_META[slug].maxSizeBytes
  ELSE max_upload_bytes

ViolationsOf(slug, f) ==
  {v \in {<<1, 400, "Empty file">>, <<2, 413, "File too large">>,
          <<3, 415, "Invalid MIME type">>, <<4, 400, "Malware detected">>} :
     \/ v[1] = 1 /\ f.size = 0
     \/ v[1] = 2 /\ f.size > SizeLimit(slug)
     \/ v[1] = 3 /\ f.magic \notin TOOLS_META[slug].allowedMimeTypes
     \/ v[1] = 4 /\ clamav_enabled /\ (f.reply.raises \/ f.reply.status = "FOUND")}

FirstViolation(slug, f) ==
  CHOOSE v \in ViolationsOf(slug, f) : \A u \in ViolationsOf(slug, f) : v[1] <= u[1]

C13_NoPartialAdmission ==
  /\ \A r \in Req :
       (reqs[r].pc \in {"stage", "store", "enqueue"} \/ Staged(reqs[r])) =>
          Len(reqs[r].validated) = reqs[r].nfiles
  /\ lastResp.file # NoFile =>
       /\ ViolationsOf(lastResp.slug, lastResp.file) # {}
       /\ lastResp.status = FirstViolation(lastResp.slug, lastResp.file)[2]
       /\ lastResp.detail[1] = FirstViolation(lastResp.slug, lastResp.file)[3]
       /\ ~Staged(lastResp)
       /\ lastResp.job_id = NoJob

(* The second part of a request is too large, of a type the tool does not  *)
(* take, and infected: the request is refused as too large.                *)
C13_Witness ==
  /\ clamav_enabled
  /\ Len(lastResp.scans) = 1
  /\ ViolationsOf(lastResp.slug, lastResp.file)
        = {<<2, 413, "File too large">>, <<3, 415, "Invalid MIME type">>,
           <<4, 400, "Malware detected">>}
  /\ lastResp.status = 413

(* C14: the keys a handler has staged are as many as the parts it has      *)
(* staged so far, the i-th key names the object that holds the i-th part,  *)
(* all parts are staged when the record is written, and the record's       *)
(* inputFiles and the work item's inputKeys are that same sequence.        *)
C14_KeysFollowFiles ==
  /\ \A r \in Req :
       LET q == reqs[r]
       IN /\ Len(q.input_keys) <= Len(q.validated)
          /\ q.pc \in {"store", "enqueue"} => Len(q.input_keys) = q.nfiles
          /\ \A i \in 1 .. Len(q.input_keys) :
               /\ q.input_keys[i] \in DOMAIN blobs
               /\ blobs[q.input_keys[i]].body = q.validated[i]
          /\ (q.pc = "enqueue" /\ LiveJob(q.job_id)) =>
                registry[q.job_id].meta.inputFiles = q.input_keys
  /\ \A j \in DOMAIN rq :
       (LiveJob(j) /\ "inputFiles" \in DOMAIN registry[j].meta) =>
          rq[j].data.inputKeys = registry[j].meta.inputFiles

(* C15: when the counter store does not answer (redis.incr or redis.expire *)
(* raises, the counters are left as they were), the handler sends no       *)
(* response in that step and goes on to the tool lookup with the request   *)
(* unchanged, as a request under the limit does.                           *)
RateLimitStep(r) ==
  \/ reqs[r].pc = "idle" /\ reqs'[r].pc # "idle"
  \/ reqs[r].pc = "expire" /\ reqs'[r] # reqs[r]

C15_FailOpen ==
  [][\A r \in Req :
       (RateLimitStep(r) /\ counters' = counters) =>
          /\ reqs'[r].pc = "lookup"
          /\ lastResp' = NoResp
          /\ reqs[r].pc = "expire" =>
                reqs'[r] = [reqs[r] EXCEPT !.pc = "lookup"]
          /\ UNCHANGED <<registry, blobs, rq, nextJob>>]_vars

(* A request whose redis.expire failed (its counter has no expiry) has     *)
(* been admitted.                                                          *)
C15_Witness ==
  /\ lastResp.status = 202
  /\ lastResp.incr = 1
  /\ \E key \in DOMAIN counters : counters[key].exp = NoExpiry

(* C16: a GET /jobs/{id} that finds the job carries outputUrl if and only  *)
(* if the status it returns is completed.                                  *)
C16_OutputUrlIffCompleted ==
  lastGet.status = 200 =>
    ((lastGet.outputUrl # NoKey) <=> (lastGet.body.status = "completed"))

(* C17: while the clock has not reached a job's expiresAt, no step removes *)
(* the job's record from the registry nor any of its input objects or its  *)
(* output object from the blob store.                                      *)
ArtifactsOf(meta) ==
  {meta.inputFiles[i] : i \in 1 .. Len(meta.inputFiles)}
    \cup (IF "outputFile" \in DOMAIN meta THEN {meta.outputFile} ELSE {})

C17_NothingRemovedEarly ==
  [][\A id \in DOMAIN registry :
       (/\ LiveJob(id)
        /\ "expiresAt" \in DOMAIN registry[id].meta
        /\ now' < registry[id].meta.expiresAt) =>
          /\ LiveNext(id)
          /\ \A key \in ArtifactsOf(registry[id].meta) :
               key \in DOMAIN blobs => key \in DOMAIN blobs']_vars

(* C18: a worker's update of an existing record leaves every field it was  *)
(* not given unchanged (id, slug, createdAt, expiresAt and inputFiles      *)
(* among them), adds or overwrites the fields it was given, and sets       *)
(* updatedAt to the time of the write.                                     *)
Supplied(k) ==
  IF k.pc = "begin" THEN {"status"}
  ELSE IF k.pc = "save_completed" THEN {"status", "outputFile"}
  ELSE {"status", "error"}

C18_UpdateIsMerge ==
  [][\A w \in Workers :
       LET id == workers[w].job_id
       IN (/\ workers'[w].pc # workers[w].pc
           /\ registry' # registry
           /\ LiveJob(id)) =>
            LET old == registry[id].meta
                new == registry'[id].meta
                given == Supplied(workers[w]) \cup {"updatedAt"}
            IN /\ DOMAIN new = DOMAIN old \cup given
               /\ \A f \in DOMAIN old \ given : new[f] = old[f]
               /\ new.updatedAt = now]_vars

(* A record created by admission has been updated to completed at a later *)
(* time and still holds what admission wrote.                              *)
C18_Witness ==
  \E id \in DOMAIN registry :
    LET meta == registry[id].meta
    IN /\ LiveJob(id)
       /\ meta.status = "completed"
       /\ "inputFiles" \in DOMAIN meta
       /\ meta.id = id /\ meta.inputFiles # <<>>
       /\ meta.expiresAt = meta.createdAt + ttl_ms
       /\ meta.updatedAt > meta.createdAt

(* C19: a handler writes the job record only after it has staged every     *)
(* part, and enqueues only after it has written the record with status     *)
(* queued; so for every work item in the queue, and for every worker that  *)
(* has taken one, the job's record has been written and all its input keys *)
(* have been returned by a stage operation.                                *)
AllStaged(keys) ==
  /\ keys # <<>>
  /\ \A i \in 1 .. Len(keys) : keys[i] \in DOMAIN stageLog

C19_AdmissionOrder ==
  /\ \A r \in Req :
       /\ reqs[r].pc \in {"store", "enqueue"} =>
            (Len(reqs[r].input_keys) = reqs[r].nfiles /\ AllStaged(reqs[r].input_keys))
       /\ reqs[r].pc = "enqueue" =>
            /\ reqs[r].job_id \in DOMAIN registry
            /\ reqs[r].job_id \notin DOMAIN rq
            /\ registry[reqs[r].job_id].meta.status = "queued"
       /\ reqs[r].pc \in {"lookup", "validate", "stage", "store"} =>
            reqs[r].job_id = NoJob
  /\ \A j \in DOMAIN rq :
       j \in DOMAIN registry /\ AllStaged(rq[j].data.inputKeys)
  /\ \A w \in Workers :
       workers[w].pc # "idle" =>
         (workers[w].job_id \in DOMAIN registry /\ AllStaged(workers[w].input_keys))

(* A worker is about to process a job whose record and inputs are there.   *)
C19_Witness ==
  \E w \in Workers :
    /\ workers[w].pc = "begin"
    /\ LiveJob(workers[w].job_id)
    /\ registry[workers[w].job_id].meta.status = "queued"
    /\ Len(workers[w].input_keys) = 2
    /\ \A i \in 1 .. 2 : workers[w].input_keys[i] \in DOMAIN blobs

(* C20: when the processing step of a delivery (input fetch, conversion or *)
(* output staging) has raised and process_job has raised to the queue, the *)
(* delivery has written failed with that error to the job's record before, *)
(* and it has not written completed.                                       *)
ProcessingErrors == {"NoSuchKey", "s3_error", "convert_error"}

C20_FailedBeforeReraise ==
  \A w \in Workers :
    LET k == workers[w]
    IN (k.pc \in {"save_failed", "raised"} /\ k.error \in ProcessingErrors) =>
         /\ k.wrote # "completed"
         /\ k.pc = "raised" =>
              /\ k.wrote = "failed"
              /\ registry[k.job_id].meta.status = "failed"
              /\ registry[k.job_id].meta.error = k.error

(* C21: every rate-limit counter in the store has an expiry, at most 61    *)
(* seconds ahead, unless the request that created it is still between its  *)
(* increment and its expire call.                                          *)
C21_CounterHasTtl ==
  \A key \in DOMAIN counters :
    LiveCounter(key) =>
      \/ /\ counters[key].exp # NoExpiry
         /\ counters[key].exp <= now + RateKeyTtlSeconds * 1000
      \/ \E r \in Req : reqs[r].pc = "expire" /\ reqs[r].key = key

(* C22: a request's arrival is the only step that changes a counter's      *)
(* value.  When the counter store answers, the arriving request adds       *)
(* exactly one to the counter of its own client and current minute bucket  *)
(* (a counter that is absent or expired counts from 0, so the first        *)
(* request of a bucket reads 1), leaves every other counter alone, and     *)
(* holds the value it produced; requests in flight on the same counter     *)
(* hold different values.  When the store does not answer, the request     *)
(* changes no counter and holds no value.                                  *)
Arrives(r) == reqs[r].pc = "idle" /\ reqs'[r].pc # "idle"

PriorCount(key) == IF LiveCounter(key) THEN counters[key].n ELSE 0

Counted(r) ==
  LET key == reqs'[r].key
  IN /\ key[1] \in Clients /\ key[2] = now \div MinuteMs
     /\ DOMAIN counters' = DOMAIN counters \cup {key}
     /\ counters'[key].n = PriorCount(key) + 1
     /\ reqs'[r].incr = PriorCount(key) + 1
     /\ \A k2 \in DOMAIN counters \ {key} : counters'[k2] = counters[k2]

NotCounted(r) == counters' = counters /\ reqs'[r].incr = 0

DistinctValues ==
  \A r1, r2 \in Req :
    (/\ r1 # r2
     /\ reqs'[r1].pc # "idle" /\ reqs'[r2].pc # "idle"
     /\ reqs'[r1].key = reqs'[r2].key
     /\ reqs'[r1].incr > 0) => reqs'[r1].incr # reqs'[r2].incr

C22_CountedOnceWhenStoreAnswers ==
  [][/\ \A r \in Req : Arrives(r) => (Counted(r) \/ NotCounted(r))
     /\ (\A r \in Req : ~Arrives(r)) =>
          /\ DOMAIN counters' = DOMAIN counters
          /\ \A key \in DOMAIN counters : counters'[key].n = counters[key].n
     /\ DistinctValues]_vars

(* C22 as stated: every arriving request adds one to its counter.          *)
C22_EveryRequestCounted ==
  [][\A r \in Req : Arrives(r) => Counted(r)]_vars

(* Two requests of one client are in flight in the same minute bucket and  *)
(* hold the values 1 and 2.                                                *)
C22_Witness ==
  /\ reqs[1].pc # "idle" /\ reqs[2].pc # "idle"
  /\ reqs[1].key = reqs[2].key
  /\ {reqs[1].incr, reqs[2].incr} = {1, 2}

(* C23: with screening enabled the scan oracle is asked once for each file *)
(* part that passed the empty, size and type checks and for no other: a    *)
(* handler has as many answers as parts it accepted, a rejection adds one  *)
(* answer exactly when the rejected part had passed those three checks, an *)
(* admitted request has one answer per part.  With screening disabled the  *)
(* oracle is never asked and no request is refused for malware.            *)
ScansFor(n) == IF clamav_enabled THEN n ELSE 0

PassedChecks(slug, f) == \A v \in ViolationsOf(slug, f) : v[1] = 4

ScanCounts ==
  /\ \A r \in Req : Len(reqs[r].scans) = ScansFor(Len(reqs[r].validated))
  /\ lastResp.status = 202 => Len(lastResp.scans) = ScansFor(Len(lastResp.input_keys))
  /\ ~clamav_enabled =>
       (lastResp.scans = <<>> /\
        (lastResp.file # NoFile => lastResp.detail[1] # "Malware detected"))

ScanStep ==
  \A r \in Req :
    (reqs[r].pc = "validate" /\ reqs'[r] # reqs[r]) =>
       IF reqs'[r].pc = "idle"
       THEN /\ lastResp'.file \in Files
            /\ Len(lastResp'.scans) = Len(reqs[r].scans) +
                 (IF clamav_enabled /\ PassedChecks(reqs[r].slug, lastResp'.file)
                  THEN 1 ELSE 0)
       ELSE /\ Len(reqs'[r].validated) = Len(reqs[r].validated) + 1
            /\ Len(reqs'[r].scans) = Len(reqs[r].scans) + ScansFor(1)

C23_OracleOncePerFile == [](ScanCounts) /\ [][ScanStep]_vars

(* With screening enabled a request of two parts has been admitted after   *)
(* two answers of the oracle.                                              *)
C23_Witness ==
  /\ clamav_enabled
  /\ lastResp.status = 202
  /\ Len(lastResp.input_keys) = 2
  /\ Len(lastResp.scans) = 2

(* C24: a sweep keeps exactly the objects that lie under another prefix    *)
(* than temp/ and output/ or whose age is at most the job TTL, leaves the  *)
(* kept objects as they are, and leaves nothing that a second sweep at the *)
(* same time would delete.  (In SpecSweep a step that leaves the clock     *)
(* alone is a sweep.)                                                      *)
Age(key) == now - blobs[key].lastModified

C24_SweepExact ==
  [][now' = now =>
       /\ \A key \in DOMAIN blobs :
            key \in DOMAIN blobs' <=>
              (key[1] \notin {"temp", "output"} \/ Age(key) <= ttl_ms)
       /\ \A key \in DOMAIN blobs' :
            /\ key \in DOMAIN blobs /\ blobs'[key] = blobs[key]
            /\ ~(key[1] \in {"temp", "output"}
                   /\ now' - blobs'[key].lastModified > ttl_ms)]_vars

(* A sweep one millisecond past the TTL has deleted the objects staged at  *)
(* 0 ms and kept those staged at 1 ms (age equal to the TTL) and the old   *)
(* object under backup/.                                                   *)
C24_Witness ==
  /\ now = ttl_ms + 1
  /\ {ObjectKey("temp", 0), ObjectKey("output", 0)} \subseteq DOMAIN stageLog
  /\ DOMAIN blobs = {ObjectKey("temp", 1), ObjectKey("output", 1),
                     ObjectKey("backup", 0)}

(* C25: a job record that exists is changed only by a step of a worker     *)
(* that executes a delivery of that job (its write of running, completed   *)
(* or failed); no step of a request handler, of GET /jobs/{id}, of the     *)
(* sweep or of the clock changes it; and no two workers execute deliveries *)
(* of the same job at the same time.                                       *)
WritesRecordOf(w, id) ==
  /\ workers[w].job_id = id
  /\ workers[w].pc \in {"begin", "save_completed", "save_failed"}
  /\ workers'[w].pc # workers[w].pc
  /\ reqs' = reqs

OneWorkerPerJob ==
  \A w1, w2 \in Workers :
    (w1 # w2 /\ workers[w1].pc # "idle" /\ workers[w2].pc # "idle") =>
       workers[w1].job_id # workers[w2].job_id

C26_AllOrNothing ==
  /\ lastResp.status \notin {0, 202} =>
       (lastResp.job_id # NoJob =>
          (lastResp.job_id \notin DOMAIN registry /\ lastResp.job_id \notin DOMAIN rq))
  /\ lastResp.status = 202 =>
       /\ lastResp.job_id \in DOMAIN registry
       /\ lastResp.job_id \in DOMAIN rq
       /\ rq[lastResp.job_id].data.jobId = lastResp.job_id

(* C27: no step removes from the blob store an input object of a job whose *)
(* record is visible with status queued or running.                        *)
C27_InputsKeptWhileActive ==
  [][\A id \in DOMAIN registry :
       (/\ LiveJob(id)
        /\ registry[id].meta.status \in {"queued", "running"}
        /\ "inputFiles" \in DOMAIN registry[id].meta) =>
          \A i \in 1 .. Len(registry[id].meta.inputFiles) :
            registry[id].meta.inputFiles[i] \in DOMAIN blobs =>
              registry[id].meta.inputFiles[i] \in DOMAIN blobs']_vars

(* C28: when a GET /jobs/{id} returns an outputUrl, the object its         *)
(* outputFile key names is in the blob store at that moment.               *)
C28_OutputUrlObjectExists ==
  (lastGet.status = 200 /\ lastGet.outputUrl # NoKey) =>
     lastGet.outputUrl \in DOMAIN blobs

====
